---- MODULE Spec2Model ----
(***************************************************************************)
(* jmv: a three-pane terminal browser for JSON documents.                  *)
(*                                                                         *)
(* The module models                                                       *)
(*   - the document (serde_json::Value) and references into it,            *)
(*   - the navigation state machine twice, as the repository has it:       *)
(*     RenderData (src/main.rs) and ProgramState (src/state.rs),           *)
(*   - the panel derivation (render_col, render_highlight, pad_string,     *)
(*     ProgramState::panel_state),                                         *)
(*   - the program: main, main_loop and flush_resize_events.               *)
(*                                                                         *)
(* NavSpec drives the two navigation structs with arbitrary command        *)
(* sequences; Spec is the program of src/main.rs.                          *)
(***************************************************************************)
EXTENDS Integers, Sequences, FiniteSets

VARIABLES
    value,            \* the parsed document (main_loop `value`); NoValue before parsing
    overflow_checks,  \* build profile: TRUE = debug (overflow panics), FALSE = release (wraps)
    rd,               \* RenderData (main.rs)
    rd_panicked,      \* a RenderData method panicked
    ps,               \* ProgramState (state.rs)
    ps_panicked,      \* a ProgramState method panicked
    trail,            \* the last (at most two) navigation commands with the states they started from
    pc,               \* position of the program in main / main_loop / flush_resize_events
    file,             \* contents of the file named on the command line
    term_size,        \* what terminal::size() reports
    alt_screen,       \* terminal is on the alternate screen
    raw_mode,         \* terminal is in raw mode
    cursor_hidden,    \* cursor is hidden
    issued,           \* terminal-mode commands written so far
    event,            \* main_loop `event`
    last_resize,      \* flush_resize_events `last_resize`
    err,              \* the error main_loop or main returned ("none" when none)
    crash,            \* why the process died abnormally ("none" when it did not)
    exit_status,      \* process exit status, -1 while running
    pad_width,        \* pad_string `width` after line 274, -1 before any call
    frames,           \* frames flushed to the terminal
    events_read,      \* events taken from the input source
    keys_read,        \* the recognised key events taken from the input source, in order
    cmds_applied      \* the commands the dispatch of main_loop applied, in order

navvars == <<value, overflow_checks, rd, rd_panicked, ps, ps_panicked, trail>>
progvars == <<pc, file, term_size, alt_screen, raw_mode, cursor_hidden, issued, event,
              last_resize, err, crash, exit_status, pad_width, frames, events_read,
              keys_read, cmds_applied>>
vars == <<value, overflow_checks, rd, rd_panicked, ps, ps_panicked, trail,
          pc, file, term_size, alt_screen, raw_mode, cursor_hidden, issued, event,
          last_resize, err, crash, exit_status, pad_width, frames, events_read,
          keys_read, cmds_applied>>

----------------------------------------------------------------------------
(* Bounds *)

\* MoveNext is not taken once an index has reached MaxIndex (release builds
\* let the index of a childless node grow without limit).
MaxIndex == 3

\* The input source delivers at most MaxEvents events.
MaxEvents == 3

\* usize::MAX.  Only its order against indices and widths matters; it is
\* held as the largest integer the evaluator represents.
UsizeMax == 2147483647

\* u16::MAX
U16Max == 65535

----------------------------------------------------------------------------
(* Document model: serde_json::Value *)

Null == [kind |-> "Null", b |-> FALSE, n |-> 0, s |-> "", keys |-> <<>>, items |-> <<>>]
Bool(v) == [kind |-> "Bool", b |-> v, n |-> 0, s |-> "", keys |-> <<>>, items |-> <<>>]
Number(v) == [kind |-> "Number", b |-> FALSE, n |-> v, s |-> "", keys |-> <<>>, items |-> <<>>]
String(v) == [kind |-> "String", b |-> FALSE, n |-> 0, s |-> v, keys |-> <<>>, items |-> <<>>]
Array(vec) == [kind |-> "Array", b |-> FALSE, n |-> 0, s |-> "", keys |-> <<>>, items |-> vec]
Object(ks, vs) == [kind |-> "Object", b |-> FALSE, n |-> 0, s |-> "", keys |-> ks, items |-> vs]

NoValue == [kind |-> "None", b |-> FALSE, n |-> 0, s |-> "", keys |-> <<>>, items |-> <<>>]

\* {"a":[1,2,{"b":3}]}
DocScenario == Object(<<"a">>, <<Array(<<Number(1), Number(2), Object(<<"b">>, <<Number(3)>>)>>)>>)
\* {"a":{},"b":[],"c":null}
DocEmpties == Object(<<"a", "b", "c">>, <<Object(<<>>, <<>>), Array(<<>>), Null>>)
\* [[],"s",true]
DocArray == Array(<<Array(<<>>), String("s"), Bool(TRUE)>>)

\* {"abcdefghijklmnopqrstuvwxyz0123456789":1}: a key longer than any panel
DocLongKey == Object(<<"abcdefghijklmnopqrstuvwxyz0123456789">>, <<Number(1)>>)

Docs == {DocScenario, DocEmpties, DocArray, DocLongKey,
         Object(<<>>, <<>>), Array(<<>>), Null, Number(7)}

\* A reference &'a Value into the document is the sequence of child
\* positions (0-based) leading from the root to the value referred to.
RECURSIVE At(_, _)
At(node, ref) ==
    IF ref = <<>> THEN node ELSE At(node.items[Head(ref) + 1], Tail(ref))

Deref(ref) == At(value, ref)

Digits == <<"0", "1", "2", "3", "4", "5", "6", "7", "8", "9">>

\* usize::to_string / Number::to_string (decimal digits)
RECURSIVE to_string(_)
to_string(i) ==
    IF i < 10 THEN Digits[i + 1] ELSE to_string(i \div 10) \o Digits[(i % 10) + 1]

bool_to_string(v) == IF v THEN "true" ELSE "false"

Some(x) == [some |-> TRUE, val |-> x]
None == [some |-> FALSE, val |-> <<>>]

Last(seq) == seq[Len(seq)]
Front(seq) == SubSeq(seq, 1, Len(seq) - 1)
Min(a, b) == IF a < b THEN a ELSE b
Max(a, b) == IF a > b THEN a ELSE b

\* usize subtraction in a build without overflow checks (wraps modulo 2^w)
WrappingSub(a, b) == IF a >= b THEN a - b ELSE UsizeMax - (b - a) + 1

\* childCount of the specification (section 4.1): scalars and null have none
childCount(node) == IF node.kind \in {"Array", "Object"} THEN Len(node.items) ELSE 0

----------------------------------------------------------------------------
(* main.rs: RenderData *)

node_size(node) ==
    CASE node.kind = "Object" -> Len(node.keys)
      [] node.kind = "Array" -> Len(node.items)
      [] node.kind = "Null" -> 0
      [] OTHER -> 1

RD_new(size) ==
    [curr_node |-> <<>>, index |-> 0, size |-> size,
     path_str |-> <<>>, old_indicies |-> <<>>, path |-> <<>>]

\* resize as it would be if it also reset the selection
RD_resize_resets(s, size) == [s EXCEPT !.size = size, !.index = 0]

RD_resize(s, size) == [s EXCEPT !.size = size]

\* the String, or a panic of Option::unwrap at line 60
RD_indexed_str(s) ==
    LET node == Deref(s.curr_node) IN
    CASE node.kind = "Object" ->
            IF s.index < Len(node.keys)
            THEN [panic |-> FALSE, val |-> node.keys[s.index + 1]]
            ELSE [panic |-> TRUE, val |-> ""]
      [] node.kind = "Array" -> [panic |-> FALSE, val |-> to_string(s.index)]
      [] node.kind = "Bool" -> [panic |-> FALSE, val |-> bool_to_string(node.b)]
      [] node.kind = "String" -> [panic |-> FALSE, val |-> node.s]
      [] node.kind = "Number" -> [panic |-> FALSE, val |-> to_string(node.n)]
      [] OTHER -> [panic |-> FALSE, val |-> "null"]

RD_prev_str(s) == IF s.path_str = <<>> THEN None ELSE Some(Last(s.path_str))

RD_indexed_val(s) ==
    LET node == Deref(s.curr_node) IN
    IF node.kind \in {"Object", "Array"} /\ s.index < Len(node.items)
    THEN Some(Append(s.curr_node, s.index))
    ELSE None

RD_prev_node(s) == IF s.path = <<>> THEN None ELSE Some(Last(s.path))

RD_prev_index(s) == IF s.old_indicies = <<>> THEN None ELSE Some(Last(s.old_indicies))

\* push_path as it would be with the index saved after it has been reset
RD_push_path_saves_late(s) ==
    LET val == RD_indexed_val(s)
        str == RD_indexed_str(s)
    IN  IF ~val.some THEN [st |-> s, panic |-> FALSE]
        ELSE [st |-> [s EXCEPT !.path = Append(@, s.curr_node),
                               !.path_str = Append(@, str.val),
                               !.old_indicies = Append(@, 0),
                               !.index = 0,
                               !.curr_node = val.val],
              panic |-> FALSE]

\* push_path as it would be with the parent pushed before the child is looked up
RD_push_path_pushes_first(s) ==
    LET val == RD_indexed_val(s)
        str == RD_indexed_str(s)
        pushed == [s EXCEPT !.path = Append(@, s.curr_node)]
    IN  IF ~val.some THEN [st |-> pushed, panic |-> FALSE]
        ELSE [st |-> [pushed EXCEPT !.path_str = Append(@, str.val),
                                    !.old_indicies = Append(@, s.index),
                                    !.index = 0,
                                    !.curr_node = val.val],
              panic |-> FALSE]

RD_push_path(s) ==
    LET val == RD_indexed_val(s)
        str == RD_indexed_str(s)
    IN  IF ~val.some THEN [st |-> s, panic |-> FALSE]
        ELSE IF str.panic
             THEN [st |-> [s EXCEPT !.path = Append(@, s.curr_node)], panic |-> TRUE]
             ELSE [st |-> [s EXCEPT !.path = Append(@, s.curr_node),
                                    !.path_str = Append(@, str.val),
                                    !.old_indicies = Append(@, s.index),
                                    !.index = 0,
                                    !.curr_node = val.val],
                   panic |-> FALSE]

RD_pop_path(s) ==
    IF s.path # <<>>
    THEN [st |-> [s EXCEPT !.index = Last(s.old_indicies),
                           !.old_indicies = Front(@),
                           !.curr_node = Last(s.path),
                           !.path = Front(@),
                           !.path_str = Front(@)],
          panic |-> FALSE]
    ELSE [st |-> s, panic |-> FALSE]

\* inc_index as it would be with the bound `size` instead of `size - 1`
RD_inc_index_past_last(s) ==
    LET n == node_size(Deref(s.curr_node)) IN
    [st |-> IF s.index < n THEN [s EXCEPT !.index = @ + 1] ELSE s, panic |-> FALSE]

RD_inc_index(s) ==
    LET n == node_size(Deref(s.curr_node)) IN
    IF n < 1 /\ overflow_checks
    THEN [st |-> s, panic |-> TRUE]
    ELSE [st |-> IF s.index < WrappingSub(n, 1) THEN [s EXCEPT !.index = @ + 1] ELSE s,
          panic |-> FALSE]

RD_dec_index(s) ==
    [st |-> [s EXCEPT !.index = IF @ >= 1 THEN @ - 1 ELSE 0], panic |-> FALSE]

----------------------------------------------------------------------------
(* state.rs: ProgramState *)

get_value_size(v) ==
    CASE v.kind = "Object" -> Len(v.keys)
      [] v.kind = "Array" -> Len(v.items)
      [] OTHER -> 1

\* the String, or the panic of expect("Index of of bounds") at line 153
get_value_key(node, index) ==
    CASE node.kind = "Object" ->
            IF index < Len(node.keys)
            THEN [panic |-> FALSE, val |-> node.keys[index + 1]]
            ELSE [panic |-> TRUE, val |-> ""]
      [] node.kind = "Array" -> [panic |-> FALSE, val |-> to_string(index)]
      [] node.kind = "Bool" -> [panic |-> FALSE, val |-> bool_to_string(node.b)]
      [] node.kind = "String" -> [panic |-> FALSE, val |-> node.s]
      [] node.kind = "Number" -> [panic |-> FALSE, val |-> to_string(node.n)]
      [] OTHER -> [panic |-> FALSE, val |-> "null"]

PS_new(v, size) ==
    [size |-> size, value |-> v, index |-> 0,
     paths |-> <<>>, values |-> <<>>, indices |-> <<>>]

PS_resize(s, size) == [s EXCEPT !.size = size]

\* the child selected by `index`, as push_path (lines 103-107) and
\* panel_state (lines 80-84) look it up
PS_indexed_val(s) ==
    LET node == Deref(s.value) IN
    IF node.kind \in {"Object", "Array"} /\ s.index < Len(node.items)
    THEN Some(Append(s.value, s.index))
    ELSE None

PS_push_path(s) ==
    LET val == PS_indexed_val(s) IN
    IF ~val.some THEN [st |-> s, panic |-> FALSE]
    ELSE LET moved == [s EXCEPT !.indices = Append(@, s.index),
                                !.values = Append(@, s.value),
                                !.index = 0,
                                !.value = val.val]
             text == get_value_key(Deref(val.val), 0)
         IN  IF text.panic
             THEN [st |-> moved, panic |-> TRUE]
             ELSE [st |-> [moved EXCEPT !.paths = Append(@, text.val)], panic |-> FALSE]

PS_pop_path(s) ==
    IF s.paths # <<>>
    THEN [st |-> [s EXCEPT !.index = Last(s.indices),
                           !.indices = Front(@),
                           !.value = Last(s.values),
                           !.values = Front(@),
                           !.paths = Front(@)],
          panic |-> FALSE]
    ELSE [st |-> s, panic |-> FALSE]

PS_inc_index(s) ==
    LET n == get_value_size(Deref(s.value)) IN
    IF n < 1 /\ overflow_checks
    THEN [st |-> s, panic |-> TRUE]
    ELSE [st |-> IF s.index < WrappingSub(n, 1) THEN [s EXCEPT !.index = @ + 1] ELSE s,
          panic |-> FALSE]

PS_dec_index(s) ==
    [st |-> [s EXCEPT !.index = IF @ >= 1 THEN @ - 1 ELSE 0], panic |-> FALSE]

----------------------------------------------------------------------------
(* main.rs: panel derivation (render_col, render_highlight, pad_string) *)

Sides == {"Left", "Middle", "Right"}

\* the lines render_col prints for a node, top to bottom
Lines(node) ==
    CASE node.kind = "Array" -> [i \in 1..Len(node.items) |-> to_string(i - 1)]
      [] node.kind = "Object" -> node.keys
      [] node.kind = "Bool" -> <<bool_to_string(node.b)>>
      [] node.kind = "String" -> <<node.s>>
      [] node.kind = "Number" -> <<to_string(node.n)>>
      [] OTHER -> <<"null">>

\* the columns as they would be with the right panel placed at `cols * 3`
column_of_thirds(side, cols) ==
    CASE side = "Left" -> 0
      [] side = "Middle" -> cols
      [] OTHER -> (cols * 3) % (U16Max + 1)

\* the column a panel starts at, in u16 arithmetic (release builds wrap)
column_of(side, cols) ==
    CASE side = "Left" -> 0
      [] side = "Middle" -> cols
      [] OTHER -> (cols * 2) % (U16Max + 1)

\* `cols * 2` does not fit in a u16
column_overflows(side, cols) == side = "Right" /\ cols * 2 > U16Max

render_col(s, side) ==
    LET node == CASE side = "Left" -> RD_prev_node(s)
                  [] side = "Middle" -> Some(s.curr_node)
                  [] OTHER -> RD_indexed_val(s)
        cols == s.size[1] \div 3
        column == column_of(side, cols)
    IN  [node |-> node, column |-> column, width |-> cols,
         overflow |-> column_overflows(side, cols),
         lines |-> IF node.some THEN Lines(Deref(node.val)) ELSE <<>>]

RECURSIVE Spaces(_)
Spaces(k) == IF k <= 0 THEN "" ELSE " " \o Spaces(k - 1)

\* format!(" {:width$} ", str): str left-aligned, filled with spaces up to width
Format(str, width) == " " \o str \o Spaces(width - Len(str)) \o " "

\* crash: "none", "pad_overflow" (line 274 in a build with overflow checks) or
\* "format_width" (line 275 asked for a string of about usize::MAX characters)
pad_string(str, width) ==
    IF width < 4 /\ overflow_checks
    THEN [crash |-> "pad_overflow", width |-> -1, text |-> ""]
    ELSE LET w == WrappingSub(width, 4) IN
         IF w > U16Max
         THEN [crash |-> "format_width", width |-> w, text |-> ""]
         ELSE [crash |-> "none", width |-> w, text |-> Format(str, w)]

\* crash "unwrap_none" is Option::unwrap at line 60, "try_into" the unwrap at
\* lines 248-249; width is pad_string's `width` (-1 when it was not computed)
render_highlight(s, side) ==
    LET cols == s.size[1] \div 3
        column == column_of(side, cols)
        row == CASE side = "Left" -> RD_prev_index(s)
                 [] side = "Middle" -> Some(s.index)
                 [] OTHER -> None
        tmp == RD_indexed_str(s)
        str == CASE side = "Left" -> RD_prev_str(s)
                 [] side = "Middle" -> Some(tmp.val)
                 [] OTHER -> None
        nothing == [crash |-> "none", drawn |-> FALSE, column |-> column, row |-> 0,
                    label |-> "", text |-> "", width |-> -1]
    IN  IF row.some /\ row.val > U16Max THEN [nothing EXCEPT !.crash = "try_into"]
        ELSE IF tmp.panic THEN [nothing EXCEPT !.crash = "unwrap_none"]
        ELSE IF row.some /\ str.some
             THEN LET padded == pad_string(str.val, cols) IN
                  [crash |-> padded.crash, drawn |-> padded.crash = "none", column |-> column,
                   row |-> row.val, label |-> str.val, text |-> padded.text,
                   width |-> padded.width]
             ELSE nothing

----------------------------------------------------------------------------
(* state.rs: ProgramState::panel_state *)

PS_panel_state(s, panel_side) ==
    LET width == s.size[1] \div 3
        column == column_of(panel_side, width)
        index == CASE panel_side = "Left" ->
                        IF s.indices = <<>> THEN None ELSE Some(Last(s.indices))
                   [] panel_side = "Middle" -> Some(s.index)
                   [] OTHER -> Some(0)
        v == CASE panel_side = "Left" ->
                    IF s.values = <<>> THEN None ELSE Some(Last(s.values))
               [] panel_side = "Middle" -> Some(s.value)
               [] OTHER -> PS_indexed_val(s)
        absent == [some |-> FALSE, panic |-> FALSE, value |-> <<>>, text |-> "",
                   column |-> column, width |-> width, index |-> 0,
                   overflow |-> column_overflows(panel_side, width)]
    IN  IF ~index.some \/ ~v.some THEN absent
        ELSE LET text == get_value_key(Deref(v.val), index.val) IN
             IF text.panic \/ index.val > U16Max
             THEN [absent EXCEPT !.panic = TRUE]
             ELSE [some |-> TRUE, panic |-> FALSE, value |-> v.val, text |-> text.val,
                   column |-> column, width |-> width, index |-> index.val,
                   overflow |-> column_overflows(panel_side, width)]

----------------------------------------------------------------------------
(* The navigation commands applied to both structs (NavSpec) *)

\* terminal sizes (columns, rows)
Sizes == {<<9, 24>>, <<80, 24>>, <<100, 40>>}

Cmds == {"j", "k", "l", "h"}

RD_apply(cmd, s) ==
    CASE cmd = "j" -> RD_inc_index(s)
      [] cmd = "k" -> RD_dec_index(s)
      [] cmd = "l" -> RD_push_path(s)
      [] OTHER -> RD_pop_path(s)

PS_apply(cmd, s) ==
    CASE cmd = "j" -> PS_inc_index(s)
      [] cmd = "k" -> PS_dec_index(s)
      [] cmd = "l" -> PS_push_path(s)
      [] OTHER -> PS_pop_path(s)

\* what `trail` remembers of a command: the command and the states it started from
Entry(cmd) ==
    [cmd |-> cmd, rd |-> rd, ps |-> ps, rd_panicked |-> rd_panicked, ps_panicked |-> ps_panicked]

Remember(cmd) ==
    trail' = IF Len(trail) < 2 THEN Append(trail, Entry(cmd)) ELSE <<trail[2], Entry(cmd)>>

\* a panicked struct is gone: no further method runs on it
NavStep(cmd) ==
    /\ pc = "nav"
    /\ ~(rd_panicked /\ ps_panicked)
    /\ rd' = IF rd_panicked THEN rd ELSE RD_apply(cmd, rd).st
    /\ rd_panicked' = (rd_panicked \/ RD_apply(cmd, rd).panic)
    /\ ps' = IF ps_panicked THEN ps ELSE PS_apply(cmd, ps).st
    /\ ps_panicked' = (ps_panicked \/ PS_apply(cmd, ps).panic)
    /\ Remember(cmd)
    /\ UNCHANGED <<value, overflow_checks>>
    /\ UNCHANGED progvars

MoveNext == rd.index < MaxIndex /\ ps.index < MaxIndex /\ NavStep("j")
MovePrev == NavStep("k")
Descend == NavStep("l")
Ascend == NavStep("h")

Resize ==
    /\ pc = "nav"
    /\ ~(rd_panicked /\ ps_panicked)
    /\ \E size \in Sizes :
          /\ rd' = IF rd_panicked THEN rd ELSE RD_resize(rd, size)
          /\ ps' = IF ps_panicked THEN ps ELSE PS_resize(ps, size)
    /\ Remember("resize")
    /\ UNCHANGED <<value, overflow_checks, rd_panicked, ps_panicked>>
    /\ UNCHANGED progvars

NoEvent == [type |-> "None", key |-> "", size |-> <<0, 0>>]

ProgIdle(p) ==
    /\ pc = p
    /\ file = [readable |-> TRUE, valid |-> TRUE, doc |-> NoValue]
    /\ term_size = <<0, 0>>
    /\ alt_screen = FALSE /\ raw_mode = FALSE /\ cursor_hidden = FALSE
    /\ issued = {}
    /\ event = NoEvent
    /\ last_resize = <<0, 0>>
    /\ err = "none" /\ crash = "none" /\ exit_status = -1
    /\ pad_width = -1
    /\ frames = 0 /\ events_read = 0 /\ keys_read = <<>> /\ cmds_applied = <<>>

NavInit ==
    /\ value \in Docs
    /\ overflow_checks \in BOOLEAN
    /\ \E size \in Sizes : rd = RD_new(size) /\ ps = PS_new(<<>>, size)
    /\ rd_panicked = FALSE /\ ps_panicked = FALSE
    /\ trail = <<>>
    /\ ProgIdle("nav")

NavNext == MoveNext \/ MovePrev \/ Descend \/ Ascend \/ Resize

NavSpec == NavInit /\ [][NavNext]_vars

----------------------------------------------------------------------------
(* The navigation commands on the document {"a":[1,2,{"b":3}]}, with the whole
   command history kept in `trail` (ScenarioSpec) *)

\* MoveNext, Descend, MoveNext, MoveNext, Descend, Ascend, Ascend
Script == <<"j", "l", "j", "j", "l", "h", "h">>

ScenarioStep(cmd) ==
    /\ pc = "scenario"
    /\ Len(trail) < Len(Script)
    /\ ~(rd_panicked /\ ps_panicked)
    /\ rd' = IF rd_panicked THEN rd ELSE RD_apply(cmd, rd).st
    /\ rd_panicked' = (rd_panicked \/ RD_apply(cmd, rd).panic)
    /\ ps' = IF ps_panicked THEN ps ELSE PS_apply(cmd, ps).st
    /\ ps_panicked' = (ps_panicked \/ PS_apply(cmd, ps).panic)
    /\ trail' = Append(trail, Entry(cmd))
    /\ UNCHANGED <<value, overflow_checks>>
    /\ UNCHANGED progvars

ScenarioMoveNext == ScenarioStep("j")
ScenarioMovePrev == ScenarioStep("k")
ScenarioDescend == ScenarioStep("l")
ScenarioAscend == ScenarioStep("h")

ScenarioInit ==
    /\ value = DocScenario
    /\ overflow_checks \in BOOLEAN
    /\ \E size \in Sizes : rd = RD_new(size) /\ ps = PS_new(<<>>, size)
    /\ rd_panicked = FALSE /\ ps_panicked = FALSE
    /\ trail = <<>>
    /\ ProgIdle("scenario")

ScenarioNext == ScenarioMoveNext \/ ScenarioMovePrev \/ ScenarioDescend \/ ScenarioAscend

ScenarioSpec == ScenarioInit /\ [][ScenarioNext]_vars

----------------------------------------------------------------------------
(* Panel geometry over every terminal width a u16 holds (GeomSpec) *)

GeomResize ==
    /\ pc = "geometry"
    /\ \E size \in Sizes : rd' = RD_resize(rd, size) /\ ps' = PS_resize(ps, size)
    /\ UNCHANGED <<value, overflow_checks, rd_panicked, ps_panicked, trail>>
    /\ UNCHANGED progvars

GeomDescend ==
    /\ pc = "geometry"
    /\ rd' = RD_push_path(rd).st
    /\ ps' = PS_push_path(ps).st
    /\ UNCHANGED <<value, overflow_checks, rd_panicked, ps_panicked, trail>>
    /\ UNCHANGED progvars

GeomInit ==
    /\ value = DocScenario
    /\ overflow_checks \in BOOLEAN
    /\ \E cols \in 0..U16Max : rd = RD_new(<<cols, 24>>) /\ ps = PS_new(<<>>, <<cols, 24>>)
    /\ rd_panicked = FALSE /\ ps_panicked = FALSE
    /\ trail = <<>>
    /\ ProgIdle("geometry")

GeomNext == GeomResize \/ GeomDescend

GeomSpec == GeomInit /\ [][GeomNext]_vars

----------------------------------------------------------------------------
(* main.rs: the program (main, main_loop, flush_resize_events) *)

\* what the file named on the command line holds: unreadable, not JSON, or a document
Files ==
    {[readable |-> FALSE, valid |-> FALSE, doc |-> NoValue],
     [readable |-> TRUE, valid |-> FALSE, doc |-> NoValue]}
    \cup {[readable |-> TRUE, valid |-> TRUE, doc |-> d] : d \in Docs}

RecognisedKeys == {"j", "k", "l", "h", "q"}
Keys == RecognisedKeys \cup {"x"}

KeyEvent(k) == [type |-> "Key", key |-> k, size |-> <<0, 0>>]
ResizeEvent(size) == [type |-> "Resize", key |-> "", size |-> size]
Events == {KeyEvent(k) : k \in Keys} \cup {ResizeEvent(size) : size \in Sizes}

\* the command of section 4.5 a recognised key stands for
Command(k) ==
    CASE k = "j" -> "MoveNext"
      [] k = "k" -> "MovePrev"
      [] k = "l" -> "Descend"
      [] k = "h" -> "Ascend"
      [] OTHER -> "Quit"

\* an event taken from the input source by read()
Took(e) ==
    /\ events_read' = events_read + 1
    /\ keys_read' = IF e.type = "Key" /\ e.key \in RecognisedKeys
                    THEN Append(keys_read, e.key) ELSE keys_read

\* main, lines 128-130
ReadFile ==
    /\ pc = "start"
    /\ IF file.readable
       THEN pc' = "parse" /\ UNCHANGED <<err, exit_status>>
       ELSE pc' = "exited" /\ err' = "File Input" /\ exit_status' = 1
    /\ UNCHANGED <<file, term_size, alt_screen, raw_mode, cursor_hidden, issued, event,
                   last_resize, crash, pad_width, frames, events_read, keys_read, cmds_applied>>
    /\ UNCHANGED navvars

\* main_loop, lines 149-150
Parse ==
    /\ pc = "parse"
    /\ \/ /\ ~file.valid
          /\ err' = "Json Deserialization" /\ pc' = "handler"
          /\ UNCHANGED <<value, rd>>
       \/ /\ file.valid
          /\ value' = file.doc
          /\ \/ rd' = RD_new(term_size) /\ pc' = "enter" /\ UNCHANGED err
             \/ err' = "io" /\ pc' = "handler" /\ UNCHANGED rd
    /\ UNCHANGED <<file, term_size, alt_screen, raw_mode, cursor_hidden, issued, event,
                   last_resize, crash, exit_status, pad_width, frames, events_read,
                   keys_read, cmds_applied>>
    /\ UNCHANGED <<overflow_checks, rd_panicked, ps, ps_panicked, trail>>

\* main_loop, line 152
EnterScreen ==
    /\ pc = "enter"
    /\ \/ /\ cursor_hidden' = TRUE /\ alt_screen' = TRUE
          /\ issued' = issued \cup {"Hide", "EnterAlternateScreen"}
          /\ pc' = "raw" /\ UNCHANGED err
       \/ /\ err' = "io" /\ pc' = "handler"
          /\ UNCHANGED <<cursor_hidden, alt_screen, issued>>
    /\ UNCHANGED <<file, term_size, raw_mode, event, last_resize, crash, exit_status,
                   pad_width, frames, events_read, keys_read, cmds_applied>>
    /\ UNCHANGED navvars

\* main_loop, line 153
EnableRaw ==
    /\ pc = "raw"
    /\ \/ /\ raw_mode' = TRUE /\ issued' = issued \cup {"EnableRaw"}
          /\ pc' = "render" /\ UNCHANGED err
       \/ /\ err' = "io" /\ pc' = "handler"
          /\ UNCHANGED <<raw_mode, issued>>
    /\ UNCHANGED <<file, term_size, alt_screen, cursor_hidden, event, last_resize, crash,
                   exit_status, pad_width, frames, events_read, keys_read, cmds_applied>>
    /\ UNCHANGED navvars

\* the first failure of a frame: render_highlight runs for Left, then for Middle
FrameCrash ==
    IF render_highlight(rd, "Left").crash # "none"
    THEN render_highlight(rd, "Left").crash
    ELSE render_highlight(rd, "Middle").crash

\* pad_string's `width` as the frame last computed it
FrameWidth ==
    LET l == render_highlight(rd, "Left")
        m == render_highlight(rd, "Middle")
    IN  IF l.crash = "none" /\ m.width # -1 THEN m.width
        ELSE IF l.width # -1 THEN l.width
        ELSE pad_width

\* exit status of a process killed by a panic (101) or by abort (134)
CrashStatus(c) == IF c = "format_width" THEN {101, 134} ELSE {101}

\* main_loop, lines 156-168: one frame
Render ==
    /\ pc = "render"
    /\ pad_width' = FrameWidth
    /\ \/ /\ FrameCrash # "none"
          /\ crash' = FrameCrash /\ pc' = "crashed"
          /\ exit_status' \in CrashStatus(FrameCrash)
          /\ UNCHANGED <<err, frames>>
       \/ /\ FrameCrash = "none"
          /\ \/ frames' = frames + 1 /\ pc' = "read" /\ UNCHANGED err
             \/ err' = "io" /\ pc' = "handler" /\ UNCHANGED frames
          /\ UNCHANGED <<crash, exit_status>>
    /\ UNCHANGED <<file, term_size, alt_screen, raw_mode, cursor_hidden, issued, event,
                   last_resize, events_read, keys_read, cmds_applied>>
    /\ UNCHANGED navvars

\* main_loop, lines 170-173 up to the call of flush_resize_events
ReadEvent ==
    /\ pc = "read"
    /\ \/ /\ events_read < MaxEvents
          /\ \E e \in Events :
                /\ event' = e
                /\ Took(e)
                /\ IF e.type = "Resize"
                   THEN last_resize' = e.size /\ pc' = "flush_poll"
                   ELSE pc' = "dispatch" /\ UNCHANGED last_resize
          /\ UNCHANGED err
       \/ /\ err' = "io" /\ pc' = "handler"
          /\ UNCHANGED <<event, last_resize, events_read, keys_read>>
    /\ UNCHANGED <<file, term_size, alt_screen, raw_mode, cursor_hidden, issued, crash,
                   exit_status, pad_width, frames, cmds_applied>>
    /\ UNCHANGED navvars

\* flush_resize_events, line 280: poll(50ms) is Ok(true) when an event arrives in
\* time; Ok(false) and Err end the loop
FlushPoll ==
    /\ pc = "flush_poll"
    /\ \/ events_read < MaxEvents /\ pc' = "flush_read"
       \/ pc' = "dispatch"
    /\ UNCHANGED <<file, term_size, alt_screen, raw_mode, cursor_hidden, issued, event,
                   last_resize, err, crash, exit_status, pad_width, frames, events_read,
                   keys_read, cmds_applied>>
    /\ UNCHANGED navvars

\* flush_resize_events, lines 281-283: a resize is kept, anything else is let go
FlushRead ==
    /\ pc = "flush_read"
    /\ \/ \E e \in Events :
             /\ Took(e)
             /\ last_resize' = IF e.type = "Resize" THEN e.size ELSE last_resize
       \/ UNCHANGED <<last_resize, events_read, keys_read>>
    /\ pc' = "flush_poll"
    /\ UNCHANGED <<file, term_size, alt_screen, raw_mode, cursor_hidden, issued, event,
                   err, crash, exit_status, pad_width, frames, cmds_applied>>
    /\ UNCHANGED navvars

\* the dispatch as it would be if an event that changes nothing went straight back
\* to read(), without a redraw
Dispatch_skips_redraw ==
    /\ pc = "dispatch"
    /\ IF event.type = "Key" /\ event.key = "q"
       THEN /\ pc' = "leave"
            /\ cmds_applied' = Append(cmds_applied, Command("q"))
            /\ UNCHANGED <<rd, rd_panicked, crash, exit_status>>
       ELSE IF event.type = "Key" /\ event.key \in Cmds
       THEN /\ event.key = "j" => rd.index < MaxIndex
            /\ IF RD_apply(event.key, rd).panic
               THEN /\ crash' = "inc_overflow" /\ pc' = "crashed" /\ exit_status' = 101
                    /\ rd_panicked' = TRUE
                    /\ UNCHANGED cmds_applied
               ELSE /\ pc' = "render"
                    /\ cmds_applied' = Append(cmds_applied, Command(event.key))
                    /\ UNCHANGED <<rd_panicked, crash, exit_status>>
            /\ rd' = RD_apply(event.key, rd).st
       ELSE /\ pc' = "read"
            /\ UNCHANGED <<rd, rd_panicked, crash, exit_status, cmds_applied>>
    /\ UNCHANGED <<file, term_size, alt_screen, raw_mode, cursor_hidden, issued, event,
                   last_resize, err, pad_width, frames, events_read, keys_read>>
    /\ UNCHANGED <<value, overflow_checks, ps, ps_panicked, trail>>

\* main_loop, lines 175-189
Dispatch ==
    /\ pc = "dispatch"
    /\ IF event.type = "Key" /\ event.key = "q"
       THEN /\ pc' = "leave"
            /\ cmds_applied' = Append(cmds_applied, Command("q"))
            /\ UNCHANGED <<rd, rd_panicked, crash, exit_status>>
       ELSE IF event.type = "Key" /\ event.key \in Cmds
       THEN /\ event.key = "j" => rd.index < MaxIndex
            /\ IF RD_apply(event.key, rd).panic
               THEN /\ crash' = "inc_overflow" /\ pc' = "crashed" /\ exit_status' = 101
                    /\ rd_panicked' = TRUE
                    /\ UNCHANGED cmds_applied
               ELSE /\ pc' = "render"
                    /\ cmds_applied' = Append(cmds_applied, Command(event.key))
                    /\ UNCHANGED <<rd_panicked, crash, exit_status>>
            /\ rd' = RD_apply(event.key, rd).st
       ELSE /\ pc' = "render"
            /\ UNCHANGED <<rd, rd_panicked, crash, exit_status, cmds_applied>>
    /\ UNCHANGED <<file, term_size, alt_screen, raw_mode, cursor_hidden, issued, event,
                   last_resize, err, pad_width, frames, events_read, keys_read>>
    /\ UNCHANGED <<value, overflow_checks, ps, ps_panicked, trail>>

\* main_loop, lines 192-197
LeaveScreen ==
    /\ pc = "leave"
    /\ \/ /\ cursor_hidden' = FALSE /\ alt_screen' = FALSE
          /\ issued' = issued \cup {"Show", "LeaveAlternateScreen"}
          /\ pc' = "leave_raw" /\ UNCHANGED err
       \/ /\ err' = "io" /\ pc' = "handler"
          /\ UNCHANGED <<cursor_hidden, alt_screen, issued>>
    /\ UNCHANGED <<file, term_size, raw_mode, event, last_resize, crash, exit_status,
                   pad_width, frames, events_read, keys_read, cmds_applied>>
    /\ UNCHANGED navvars

\* main_loop, lines 198-199, and the Ok(()) of main
DisableRaw ==
    /\ pc = "leave_raw"
    /\ \/ /\ raw_mode' = FALSE /\ issued' = issued \cup {"DisableRaw"}
          /\ pc' = "exited" /\ exit_status' = 0 /\ UNCHANGED err
       \/ /\ err' = "io" /\ pc' = "handler"
          /\ UNCHANGED <<raw_mode, issued, exit_status>>
    /\ UNCHANGED <<file, term_size, alt_screen, cursor_hidden, event, last_resize, crash,
                   pad_width, frames, events_read, keys_read, cmds_applied>>
    /\ UNCHANGED navvars

\* main, lines 133-139: main_loop returned Err(e)
Handler ==
    /\ pc = "handler"
    /\ \/ /\ cursor_hidden' = FALSE /\ alt_screen' = FALSE
          /\ issued' = issued \cup {"Show", "LeaveAlternateScreen"}
          /\ pc' = "handler_raw" /\ UNCHANGED exit_status
       \/ /\ pc' = "exited" /\ exit_status' = 1
          /\ UNCHANGED <<cursor_hidden, alt_screen, issued>>
    /\ UNCHANGED <<file, term_size, raw_mode, event, last_resize, err, crash,
                   pad_width, frames, events_read, keys_read, cmds_applied>>
    /\ UNCHANGED navvars

\* main, lines 140-144: the error is printed and main returns Ok(())
HandlerRaw ==
    /\ pc = "handler_raw"
    /\ \/ /\ raw_mode' = FALSE /\ issued' = issued \cup {"DisableRaw"}
          /\ exit_status' = 0
       \/ /\ exit_status' = 1
          /\ UNCHANGED <<raw_mode, issued>>
    /\ pc' = "exited"
    /\ UNCHANGED <<file, term_size, alt_screen, cursor_hidden, event, last_resize, err,
                   crash, pad_width, frames, events_read, keys_read, cmds_applied>>
    /\ UNCHANGED navvars

Init ==
    /\ value = NoValue
    /\ overflow_checks \in BOOLEAN
    /\ rd = RD_new(<<0, 0>>) /\ ps = PS_new(<<>>, <<0, 0>>)
    /\ rd_panicked = FALSE /\ ps_panicked = FALSE
    /\ trail = <<>>
    /\ pc = "start"
    /\ file \in Files
    /\ term_size \in Sizes
    /\ alt_screen = FALSE /\ raw_mode = FALSE /\ cursor_hidden = FALSE
    /\ issued = {}
    /\ event = NoEvent
    /\ last_resize = <<0, 0>>
    /\ err = "none" /\ crash = "none" /\ exit_status = -1
    /\ pad_width = -1
    /\ frames = 0 /\ events_read = 0 /\ keys_read = <<>> /\ cmds_applied = <<>>

Next ==
    \/ ReadFile \/ Parse \/ EnterScreen \/ EnableRaw
    \/ Render \/ ReadEvent \/ FlushPoll \/ FlushRead \/ Dispatch
    \/ LeaveScreen \/ DisableRaw \/ Handler \/ HandlerRaw

Spec == Init /\ [][Next]_vars

----------------------------------------------------------------------------
(* Claims about the navigation state machine and the panels (NavSpec) *)

Before == Last(trail)

\* C1: in every reachable state of RenderData, 0 <= index <= max(0, childCount(curr_node) - 1);
\* the index of a node without children stays 0.
C1_IndexInRange ==
    ~rd_panicked =>
        /\ rd.index >= 0
        /\ rd.index <= Max(0, childCount(Deref(rd.curr_node)) - 1)

\* C2: no navigation command fails: neither struct panics, and no inc_index
\* evaluates `size - 1` on a size of 0.
C2_NavNeverFails ==
    /\ ~rd_panicked
    /\ ~ps_panicked
    /\ (trail # <<>> /\ Before.cmd = "j") =>
          /\ node_size(Deref(Before.rd.curr_node)) >= 1
          /\ get_value_size(Deref(Before.ps.value)) >= 1

\* C3: Descend immediately followed by Ascend, started on a node with at least one
\* child, leaves each struct exactly as it was (node, index, all three stacks).
C3_DescendAscendRestores ==
    (Len(trail) = 2 /\ trail[1].cmd = "l" /\ trail[2].cmd = "h") =>
        /\ (~trail[1].rd_panicked /\ childCount(Deref(trail[1].rd.curr_node)) > 0) =>
              (~rd_panicked /\ rd = trail[1].rd)
        /\ (~trail[1].ps_panicked /\ childCount(Deref(trail[1].ps.value)) > 0) =>
              (~ps_panicked /\ ps = trail[1].ps)

\* RenderData on its own does satisfy the inverse law: push_path then pop_path, started
\* on a node with at least one child, gives back the RenderData it started from.
RD_DescendAscendRestores ==
    (Len(trail) = 2 /\ trail[1].cmd = "l" /\ trail[2].cmd = "h"
        /\ ~trail[1].rd_panicked /\ childCount(Deref(trail[1].rd.curr_node)) > 0) =>
            (~rd_panicked /\ rd = trail[1].rd)

\* C4: MoveNext sets the index to min(index + 1, max(0, childCount - 1)) on every
\* kind of node, in both structs, and changes nothing else.
C4_MoveNextClamps ==
    (trail # <<>> /\ Before.cmd = "j") =>
        /\ ~Before.rd_panicked =>
              /\ ~rd_panicked
              /\ rd = [Before.rd EXCEPT !.index =
                          Min(@ + 1, Max(0, childCount(Deref(Before.rd.curr_node)) - 1))]
        /\ ~Before.ps_panicked =>
              /\ ~ps_panicked
              /\ ps = [Before.ps EXCEPT !.index =
                          Min(@ + 1, Max(0, childCount(Deref(Before.ps.value)) - 1))]

\* C9: in every reachable navigation state the middle panel can be derived (content
\* lines and highlight at row index) and its source node is the current node.  Stated
\* for panels at least 4 columns wide; narrower ones are the subject of C10.
C9_MiddlePanelPresent ==
    rd.size[1] \div 3 >= 4 =>
        /\ ~rd_panicked =>
              /\ render_col(rd, "Middle").node = Some(rd.curr_node)
              /\ render_highlight(rd, "Middle").crash = "none"
              /\ render_highlight(rd, "Middle").drawn
              /\ render_highlight(rd, "Middle").row = rd.index
        /\ ~ps_panicked =>
              /\ PS_panel_state(ps, "Middle").some
              /\ PS_panel_state(ps, "Middle").value = ps.value
              /\ PS_panel_state(ps, "Middle").index = ps.index

----------------------------------------------------------------------------
(* Claims about the program (Spec) *)

Ended == pc \in {"exited", "crashed"}

\* C5: once a resize event and the resize events that follow it have been consumed,
\* the size the next frame is derived from is the size of the last resize event.
C5_ResizeApplied ==
    (pc = "render" /\ event.type = "Resize") => rd.size = last_resize

\* the commands of a sequence of recognised keys
KeyCommands(ks) == [i \in 1..Len(ks) |-> Command(ks[i])]

\* C6: every recognised key event the program has read has been applied as its
\* command by the time the loop is back at the top (or has left on q), wherever in the
\* loop the key was read.
C6_KeysApplied ==
    pc \in {"render", "leave"} => cmds_applied = KeyCommands(keys_read)

\* C7: whenever the process has ended after entering the alternate screen and raw
\* mode, the alternate screen has been left, raw mode is off and the cursor is shown.
\* Stated for terminals whose panels are at least 4 columns wide, so that the failure
\* of a frame it meets is not the one of C10.
C7_TerminalRestored ==
    (Ended /\ {"EnterAlternateScreen", "EnableRaw"} \subseteq issued
           /\ term_size[1] \div 3 >= 4) =>
        (~alt_screen /\ ~raw_mode /\ ~cursor_hidden)

\* C8: an unreadable file or a file that is not a document ends the process with a
\* non-zero status and without any terminal-mode command having been issued.
C8_InputErrorFatal ==
    (Ended /\ err \in {"File Input", "Json Deserialization"}) =>
        (issued = {} /\ exit_status # 0)

\* C10: no width computation underflows: pad_string never fails on its subtraction
\* and the width it computes is between 0 and floor(columns / 3).
C10_NoWidthUnderflow ==
    /\ crash \notin {"pad_overflow", "format_width"}
    /\ pad_width # -1 => (pad_width >= 0 /\ pad_width <= rd.size[1] \div 3)

----------------------------------------------------------------------------
(* Claims about the highlight overlay (NavSpec) *)

Drawable == ~rd_panicked /\ rd.size[1] \div 3 >= 4

\* C11: the text of a drawn highlight line is exactly floor(columns / 3) characters
\* long, whatever the length of the label (padded when shorter, cut when longer).
C11_HighlightLineWidth ==
    Drawable =>
        \A side \in {"Left", "Middle"} :
            render_highlight(rd, side).drawn =>
                Len(render_highlight(rd, side).text) = rd.size[1] \div 3

\* C12: a highlight drawn for the left or the middle panel sits on a row where that
\* panel has a content line, and its label is that content line.
C12_HighlightOnContentLine ==
    Drawable =>
        \A side \in {"Left", "Middle"} :
            render_highlight(rd, side).drawn =>
                /\ render_highlight(rd, side).row + 1 <= Len(render_col(rd, side).lines)
                /\ render_col(rd, side).lines[render_highlight(rd, side).row + 1]
                       = render_highlight(rd, side).label

----------------------------------------------------------------------------
(* Claims about the ancestor stack (NavSpec) *)

\* the stack (nodes, indices) is the path from the root down to node
IsPathTo(nodes, indices, node) ==
    /\ Len(nodes) = Len(node)
    /\ Len(indices) = Len(nodes)
    /\ nodes # <<>> => nodes[1] = <<>>
    /\ \A i \in 1..Len(nodes) :
          Append(nodes[i], indices[i]) = IF i < Len(nodes) THEN nodes[i + 1] ELSE node

\* C13: in every reachable state the ancestor stack is as long as the current node is
\* deep, its oldest entry is the root, and the child of each entry's node at the
\* entry's index is the next entry's node (the current node for the newest entry).
C13_StackIsPath ==
    /\ IsPathTo(rd.path, rd.old_indicies, rd.curr_node)
    /\ IsPathTo(ps.values, ps.indices, ps.value)

C13_Witness ==
    /\ trail # <<>> /\ Before.cmd = "l"
    /\ Len(rd.path) = 2 /\ Len(ps.values) = 2
    /\ rd.old_indicies = <<0, 2>>

\* C14: Descend on a node without children and Ascend with an empty ancestor stack
\* leave the node, the index and the stack (the whole struct) as they were.
C14_NoOps ==
    trail # <<>> =>
        /\ (Before.cmd = "l" /\ ~Before.rd_panicked
                /\ childCount(Deref(Before.rd.curr_node)) = 0) =>
              (~rd_panicked /\ rd = Before.rd)
        /\ (Before.cmd = "l" /\ ~Before.ps_panicked
                /\ childCount(Deref(Before.ps.value)) = 0) =>
              (~ps_panicked /\ ps = Before.ps)
        /\ (Before.cmd = "h" /\ ~Before.rd_panicked /\ Before.rd.path = <<>>) =>
              (~rd_panicked /\ rd = Before.rd)
        /\ (Before.cmd = "h" /\ ~Before.ps_panicked /\ Before.ps.values = <<>>) =>
              (~ps_panicked /\ ps = Before.ps)

C14_Witness ==
    /\ Len(trail) = 2
    /\ trail[1].cmd = "l" /\ childCount(Deref(trail[1].rd.curr_node)) = 0
    /\ trail[2].cmd = "h" /\ trail[2].rd.path = <<>> /\ trail[2].ps.values = <<>>
    /\ ~rd_panicked /\ ~ps_panicked

----------------------------------------------------------------------------
(* The end-to-end scenario (ScenarioSpec) *)

Triple(node, index, nodes, indices) ==
    [node |-> node, index |-> index, nodes |-> nodes, indices |-> indices]

\* the state the scenario is in after 0, 1, ... 7 commands: root is <<>>, the array
\* is <<0>>, the object {"b":3} is <<0, 2>>
Expected ==
    << Triple(<<>>, 0, <<>>, <<>>),
       Triple(<<>>, 0, <<>>, <<>>),
       Triple(<<0>>, 0, << <<>> >>, <<0>>),
       Triple(<<0>>, 1, << <<>> >>, <<0>>),
       Triple(<<0>>, 2, << <<>> >>, <<0>>),
       Triple(<<0, 2>>, 0, << <<>>, <<0>> >>, <<0, 2>>),
       Triple(<<0>>, 2, << <<>> >>, <<0>>),
       Triple(<<>>, 0, <<>>, <<>>) >>

History == [i \in 1..Len(trail) |-> trail[i].cmd]

\* C15: on {"a":[1,2,{"b":3}]} the commands MoveNext, Descend, MoveNext, MoveNext,
\* Descend, Ascend, Ascend take both structs from (root, 0, []) through (array, 0,
\* [(root,0)]), (array, 1, ..), (array, 2, ..), ({"b":3}, 0, [(root,0),(array,2)]),
\* (array, 2, [(root,0)]) back to (root, 0, []); the first MoveNext changes nothing.
C15_Scenario ==
    History = SubSeq(Script, 1, Len(trail)) =>
        /\ ~rd_panicked /\ ~ps_panicked
        /\ Triple(rd.curr_node, rd.index, rd.path, rd.old_indicies) = Expected[Len(trail) + 1]
        /\ Triple(ps.value, ps.index, ps.values, ps.indices) = Expected[Len(trail) + 1]
        /\ Len(trail) \in {2, 3, 4, 6} => Deref(rd.curr_node) = DocScenario.items[1]
        /\ Len(trail) = 5 => Deref(rd.curr_node) = Object(<<"b">>, <<Number(3)>>)

C15_Witness ==
    /\ History = Script
    /\ rd.curr_node = <<>> /\ rd.index = 0 /\ rd.path = <<>>

----------------------------------------------------------------------------
(* Layout purity (NavSpec) *)

\* C16: resize changes the stored size of a struct and nothing else (node, index and
\* stacks stay), and MoveNext, MovePrev, Descend and Ascend never change the size.
C16_LayoutPurity ==
    trail # <<>> =>
        /\ (Before.cmd = "resize" /\ ~Before.rd_panicked) =>
              rd = [Before.rd EXCEPT !.size = rd.size]
        /\ (Before.cmd = "resize" /\ ~Before.ps_panicked) =>
              ps = [Before.ps EXCEPT !.size = ps.size]
        /\ Before.cmd \in Cmds => (rd.size = Before.rd.size /\ ps.size = Before.ps.size)

C16_Witness ==
    /\ trail # <<>> /\ Before.cmd = "resize"
    /\ ~rd_panicked /\ ~ps_panicked
    /\ rd.size # Before.rd.size /\ ps.size # Before.ps.size
    /\ rd.index > 0 /\ rd.path # <<>>

\* The event loop of main.rs leaves the whole RenderData alone while it handles a
\* resize event (Spec).
LoopResizeKeepsNavigation ==
    [][(pc \in {"flush_poll", "flush_read"} \/ (pc = "dispatch" /\ event.type = "Resize"))
          => rd' = rd]_vars

----------------------------------------------------------------------------
(* Geometry (GeomSpec) *)

Offset(side, w) == CASE side = "Left" -> 0 [] side = "Middle" -> w [] OTHER -> 2 * w

\* C17: for every terminal width N of 16 bits each panel is floor(N / 3) wide, the
\* panels start at columns 0, floor(N / 3) and 2 * floor(N / 3), `cols * 2` fits in
\* 16 bits, and the right panel ends at or before column N.
C17_Geometry ==
    /\ \A side \in Sides :
          /\ render_col(rd, side).width = rd.size[1] \div 3
          /\ render_col(rd, side).column = Offset(side, rd.size[1] \div 3)
          /\ ~render_col(rd, side).overflow
          /\ render_col(rd, side).column + render_col(rd, side).width <= rd.size[1]
    /\ \A side \in Sides :
          PS_panel_state(ps, side).some =>
              /\ PS_panel_state(ps, side).width = ps.size[1] \div 3
              /\ PS_panel_state(ps, side).column = Offset(side, ps.size[1] \div 3)
              /\ ~PS_panel_state(ps, side).overflow
              /\ PS_panel_state(ps, side).column + PS_panel_state(ps, side).width
                    <= ps.size[1]

C17_Witness ==
    /\ pc = "geometry"
    /\ rd.size[1] = U16Max /\ ps.size[1] = U16Max
    /\ render_col(rd, "Right").column = 43690
    /\ PS_panel_state(ps, "Left").some /\ PS_panel_state(ps, "Right").some

----------------------------------------------------------------------------
(* The right panel (NavSpec) *)

\* the current node has a child at the current index
HasSelectedChild(node, index) == index < childCount(Deref(node))

\* RenderData on its own: render_col(Right) has a source exactly when there is a
\* selected child, the source is that child, and no highlight is drawn for Right.
RD_RightPanel ==
    ~rd_panicked =>
        /\ render_col(rd, "Right").node.some <=> HasSelectedChild(rd.curr_node, rd.index)
        /\ render_col(rd, "Right").node.some =>
              render_col(rd, "Right").node.val = Append(rd.curr_node, rd.index)
        /\ ~render_highlight(rd, "Right").drawn

\* C18: the right panel is there exactly when the current node has a child at the
\* current index, its source is that child, it has no highlight, and deriving it
\* succeeds for every kind of child (an empty object too), in both implementations.
C18_RightPanel ==
    /\ RD_RightPanel
    /\ ~ps_panicked =>
          /\ ~PS_panel_state(ps, "Right").panic
          /\ PS_panel_state(ps, "Right").some <=> HasSelectedChild(ps.value, ps.index)
          /\ PS_panel_state(ps, "Right").some =>
                PS_panel_state(ps, "Right").value = Append(ps.value, ps.index)

----------------------------------------------------------------------------
(* One frame per processed event (Spec) *)

IsQuit(e) == e.type = "Key" /\ e.key = "q"

\* C19: the dispatch of a non-quit event hands over to exactly one frame before the
\* program blocks in read() again: the dispatch itself draws nothing and goes to the
\* top of the loop, a frame that reaches read() has been flushed exactly once, read()
\* is reached from nowhere else, and nothing outside the frame draws.  After q the
\* loop is left: no frame, no change of the navigation state, no way back.
C19_OneFramePerEvent ==
    [][/\ (pc = "dispatch" /\ IsQuit(event)) =>
              (pc' = "leave" /\ frames' = frames /\ rd' = rd)
       /\ (pc = "dispatch" /\ ~IsQuit(event) /\ pc' # "crashed") =>
              (pc' = "render" /\ frames' = frames)
       /\ (pc = "render" /\ pc' = "read") => frames' = frames + 1
       /\ (pc' = "read" /\ pc # "read") => pc = "render"
       /\ pc # "render" => frames' = frames
       /\ pc \in {"leave", "leave_raw", "handler", "handler_raw", "exited", "crashed"} =>
              (rd' = rd /\ pc' \in {"leave_raw", "handler", "handler_raw", "exited"})
      ]_vars

C19_Witness ==
    /\ pc = "read" /\ frames = 3
    /\ event = KeyEvent("x")
    /\ cmds_applied = <<"Descend">>

----------------------------------------------------------------------------
(* The two implementations side by side (NavSpec) *)

\* C20: driven by the same commands from the same root, RenderData and ProgramState
\* fail on the same steps and, while they run, hold the same current node, index,
\* saved nodes and saved indices.
C20_ImplementationsAgree ==
    /\ rd_panicked = ps_panicked
    /\ (~rd_panicked /\ ~ps_panicked) =>
          Triple(rd.curr_node, rd.index, rd.path, rd.old_indicies)
              = Triple(ps.value, ps.index, ps.values, ps.indices)

====
